---- MODULE Spec2Model ----
(***************************************************************************)
(* A model of src/struct/Queue.ts (class Queue): the per-guild playback    *)
(* queue of DisTube.  Commands are issued by client tasks that interleave  *)
(* on one JavaScript thread: a step of the model is one run-to-completion  *)
(* stretch of code between two suspension points (await).                  *)
(***************************************************************************)
EXTENDS Integers, Sequences, FiniteSets, TLC

\* ------------------------------------------------------------------ bounds
NumSongs == 3       \* song identifiers are 1..NumSongs
MaxLen == 2         \* longest song list of an initial state
NumProcs == 2       \* client tasks issuing commands concurrently
MaxCalls == 2       \* commands issued in one behaviour

MaxPrev == MaxLen - 1      \* longest history of an initial state
MaxPos == MaxLen + 1       \* positions handed to addToQueue and jump
MaxTime == NumProcs - 1    \* times handed to seek
MaxRelated == MaxLen - 1   \* candidates one lookup answers

Procs == 1..NumProcs
Ids == 1..NumSongs

\* RepeatMode enum of the package (DISABLED = 0, SONG = 1, QUEUE = 2), as
\* Queue.ts uses it: line 95 (DISABLED), line 269 (=== 2), line 344 (% 3).
DISABLED == 0
SONG == 1
QUEUE == 2
RepeatModes == {DISABLED, SONG, QUEUE}

\* ------------------------------------------------------------------- songs
\* A Song as the queue reads it: id, metadata, member.  The stream of a song
\* (stream.playFromSource, stream.song) is fixed per identifier.
Song(i) == [id |-> i, metadata |-> i, member |-> "user"]
\* A song as the related-song plugin hands it out, before addRelatedSong sets
\* its metadata and member.
Candidate(i) == [id |-> i, metadata |-> 0, member |-> "none"]
\* The song itself in place of its stub.
FullCopy(s) == s
\* ({ id: s.id }) as Song
Stub(s) == [id |-> s.id]
\* The value of songs[i] past the end of the array, and of "no song".
Undefined == [undefined |-> TRUE]

\* current.stream.playFromSource: the songs with an even identifier are
\* played from their own source, the others through a substitute.
PlayFromSource(s) == s.id % 2 = 0
\* current.stream.song: the substitute a song is streamed from; the song with
\* the last identifier has none.
AltSong(s) == IF s.id < NumSongs THEN Song(s.id + 1) ELSE Undefined

\* ----------------------------------------------------------- array helpers
Min(a, b) == IF a < b THEN a ELSE b

\* JavaScript a[i], 0-based, undefined past the end.
At(a, i) == IF i >= 0 /\ i < Len(a) THEN a[i + 1] ELSE Undefined

\* a.splice(start, 0, ...items) for start >= 0: the array afterwards.
SpliceInsert(a, start, items) ==
  LET k == Min(start, Len(a))
  IN  SubSeq(a, 1, k) \o items \o SubSeq(a, k + 1, Len(a))

\* a.splice(start) for start >= 0: <<what stays in a, what is removed>>.
SpliceFrom(a, start) ==
  LET k == Min(start, Len(a))
  IN  <<SubSeq(a, 1, k), SubSeq(a, k + 1, Len(a))>>

\* a.splice(start - 1) for start < 0: one more element removed.
SpliceFromEndOneMore(a, start) ==
  LET k == IF Len(a) + start - 1 < 0 THEN 0 ELSE Len(a) + start - 1
  IN  <<SubSeq(a, 1, k), SubSeq(a, k + 1, Len(a))>>

\* a.splice(start) for start < 0: counted from the end.
SpliceFromEnd(a, start) ==
  LET k == IF Len(a) + start < 0 THEN 0 ELSE Len(a) + start
  IN  <<SubSeq(a, 1, k), SubSeq(a, k + 1, Len(a))>>

MapSeq(F(_), a) == [i \in 1..Len(a) |-> F(a[i])]
IdsOf(a) == {a[i].id : i \in 1..Len(a)}
FilterNotIn(a, ids) == SelectSeq(a, LAMBDA s : s.id \notin ids)

\* [a[i], a[j]] = [a[j], a[i]], 0-based.
Swap(a, i, j) == [a EXCEPT ![i + 1] = a[j + 1], ![j + 1] = a[i + 1]]

\* The loop of shuffle(): for (i = length - 1; i > 0; i--), j drawn by
\* Math.floor(Math.random() * (i + 1)), i.e. any of 0..i.  The set of arrays
\* the loop can end with.
RECURSIVE FisherYates(_, _)
FisherYates(a, i) ==
  IF i <= 0 THEN {a}
  ELSE UNION {FisherYates(Swap(a, i, j), i - 1) : j \in 0..i}

SeqsUpTo(S, n) == UNION {[1..k -> S] : k \in 0..n}

\* ------------------------------------------------------------------- state
VARIABLES
  songs,              \* Queue.songs
  previousSongs,      \* Queue.previousSongs
  stopped,            \* Queue.stopped
  playing,            \* Queue.playing
  paused,             \* Queue.paused
  repeatMode,         \* Queue.repeatMode
  autoplay,           \* Queue.autoplay
  _beginTime,         \* Queue._beginTime
  _next,              \* Queue._next
  _prev,              \* Queue._prev
  _taskQueue,         \* Queue._taskQueue: the tickets, oldest first
  savePreviousSongs,  \* this.options.savePreviousSongs
  registered,         \* the manager (this.queues) still holds this queue
  listening,          \* the voice still carries this queue's _listeners
  deleteEvents,       \* DELETE_QUEUE events emitted
  pc,                 \* where each client task stands
  frame,              \* the locals of each client task's command
  applied,            \* issue number of the latest ticketed command that ran
  last,               \* the outcome of the command that completed last
  calls               \* commands issued so far

qstate == <<songs, previousSongs, stopped, playing, paused, repeatMode,
            autoplay, _beginTime, _next, _prev>>
manager == <<registered, listening, deleteEvents>>
vars == <<songs, previousSongs, stopped, playing, paused, repeatMode,
          autoplay, _beginTime, _next, _prev, _taskQueue, savePreviousSongs,
          registered, listening, deleteEvents, pc, frame, applied, last, calls>>

\* The commands that go through the task queue.
Ticketed == {"pause", "resume", "skip", "previous", "shuffle", "jump", "stop"}

NoArgs == [none |-> TRUE]

IdleFrame ==
  [op |-> "none", args |-> NoArgs, seq |-> 0, afterStop |-> FALSE,
   current |-> Undefined, prevIds |-> {}, found |-> <<>>, relatedSongs |-> <<>>,
   song |-> Undefined, err |-> "none", sent |-> <<>>, wrote |-> FALSE,
   released |-> 0]

\* What a completed command leaves for its caller: the error it threw ("none"
\* when it returned), the value it returned, the transport commands it sent,
\* whether it changed the queue's state, how often it released its ticket,
\* and whether the queue was stopped when it was called.
Outcome(op, args, seq, afterStop, err, ret, sent, wrote, released) ==
  [op |-> op, args |-> args, seq |-> seq, afterStop |-> afterStop, err |-> err,
   ret |-> ret, sent |-> sent, wrote |-> wrote, released |-> released]

\* A value handed where a number is expected: a number, NaN, or a value of
\* another type (typeof x !== "number").
Num(n) == [type |-> "number", nan |-> FALSE, val |-> n]
NaN == [type |-> "number", nan |-> TRUE, val |-> 0]
NotNumber == [type |-> "string", nan |-> FALSE, val |-> 0]

\* A value handed as song: one song, an array of songs, or nothing (items
\* empty: undefined for a single song, [] for an array).
OneSong(s) == [array |-> FALSE, items |-> <<s>>]
SongArray(a) == [array |-> TRUE, items |-> a]
NoSongGiven == [array |-> FALSE, items |-> <<>>]

\* The optional mode of setRepeatMode.
NoMode == [given |-> FALSE, val |-> 0]
Mode(m) == [given |-> TRUE, val |-> m]

\* ------------------------------------------------------------- task queue
\* TaskQueue (../struct/TaskQueue) is not among the sources; it is modelled
\* from the specification's SerialTaskQueue: tickets are admitted strictly in
\* arrival order, one at a time, and a ticket stays active until released.
queuing(q, p) == Append(q, p)
admitted(q, p) == q # <<>> /\ Head(q) = p
resolve(q) == IF q = <<>> THEN q ELSE Tail(q)

\* ---------------------------------------------------------------- commands
\* The queue object as one value, for the methods below: each method maps the
\* queue it is called on to the queue it leaves, the error it throws ("none"
\* when it returns), the value it returns and the transport commands it sends.
Queue ==
  [songs |-> songs, previousSongs |-> previousSongs, stopped |-> stopped,
   playing |-> playing, paused |-> paused, repeatMode |-> repeatMode,
   autoplay |-> autoplay, _beginTime |-> _beginTime, _next |-> _next,
   _prev |-> _prev, registered |-> registered, listening |-> listening,
   deleteEvents |-> deleteEvents]

Result(q, err, ret, sent) == [q |-> q, err |-> err, ret |-> ret, sent |-> sent]
Throw(q, err) == Result(q, err, Undefined, <<>>)

\* addToQueue inserting in front of the element at position - 1.
addToQueueBefore(q, song, position) ==
  IF q.stopped THEN Throw(q, "QUEUE_STOPPED")
  ELSE IF song.items = <<>> THEN Throw(q, "INVALID_TYPE")
  ELSE IF position.type # "number" \/ position.nan THEN Throw(q, "INVALID_TYPE")
  ELSE IF position.val <= 0
    THEN Result([q EXCEPT !.songs = @ \o song.items], "none", "this", <<>>)
    ELSE Result([q EXCEPT !.songs = SpliceInsert(@, position.val - 1, song.items)],
                "none", "this", <<>>)

\* addToQueue(song, position = 0), lines 165-182.
addToQueue(q, song, position) ==
  IF q.stopped THEN Throw(q, "QUEUE_STOPPED")
  ELSE IF song.items = <<>> THEN Throw(q, "INVALID_TYPE")
  ELSE IF position.type # "number" \/ position.nan THEN Throw(q, "INVALID_TYPE")
  ELSE IF position.val <= 0
    THEN Result([q EXCEPT !.songs = @ \o song.items], "none", "this", <<>>)
    ELSE Result([q EXCEPT !.songs = SpliceInsert(@, position.val, song.items)],
                "none", "this", <<>>)

\* pause(), the body inside try, lines 202-205.
pause(q) ==
  IF q.paused THEN Throw(q, "PAUSED")
  ELSE Result([q EXCEPT !.paused = TRUE], "none", "this", <<"pause">>)

\* resume(), the body inside try, lines 217-220.
resume(q) ==
  IF ~q.paused THEN Throw(q, "RESUMED")
  ELSE Result([q EXCEPT !.paused = FALSE], "none", "this", <<"unpause">>)

\* The check of skip() with < instead of <=.
noUpNextWhenEmpty(q) == Len(q.songs) < 1

\* skip(), line 244: there is no song to skip to.
noUpNext(q) == Len(q.songs) <= 1

\* skip(), lines 248-251: what follows the check for a next song.
skipTo(q) ==
  Result([q EXCEPT !._next = TRUE], "none", At(q.songs, 1), <<"stop">>)

\* previous(), the body inside try, lines 264-272.
previous(q, save) ==
  IF ~save THEN Throw(q, "DISABLED_OPTION")
  ELSE IF Len(q.previousSongs) = 0 /\ q.repeatMode # QUEUE
    THEN Throw(q, "NO_PREVIOUS")
  ELSE Result([q EXCEPT !._prev = TRUE], "none",
              IF q.repeatMode = 2
                THEN At(q.songs, Len(q.songs) - 1)
                ELSE At(q.previousSongs, Len(q.previousSongs) - 1),
              <<"stop">>)

\* shuffle() permuting the whole list, the playing song included.
shuffleWhole(q) ==
  {Result([q EXCEPT !.songs = all], "none", "this", <<>>) :
     all \in FisherYates(q.songs, Len(q.songs) - 1)}

\* shuffle(), the body inside try, lines 284-291: the results it can have.
shuffle(q) ==
  IF q.songs = <<>> THEN {Result(q, "none", "this", <<>>)}
  ELSE {Result([q EXCEPT !.songs = <<Head(q.songs)>> \o rest], "none", "this", <<>>) :
          rest \in FisherYates(Tail(q.songs), Len(q.songs) - 2)}

\* A forward jump returning the head of the new list.
nextSongIsHead(nextSongs) == At(nextSongs, 0)

\* jump(), line 320: the song a forward jump returns.
nextSongOf(nextSongs) == At(nextSongs, 1)

\* jump(position), the body inside try, lines 306-329.
jump(q, position, save) ==
  IF position.type # "number" THEN Throw(q, "INVALID_TYPE")
  ELSE IF \/ position.nan
          \/ position.val = 0
          \/ position.val > Len(q.songs)
          \/ -position.val > Len(q.previousSongs)
    THEN Throw(q, "NO_SONG_POSITION")
  ELSE IF position.val > 0
    THEN LET cut == SpliceFrom(q.songs, position.val - 1)
             kept == cut[1]
             nextSongs == cut[2]
         IN  Result([q EXCEPT !.previousSongs =
                                 @ \o (IF save THEN kept ELSE MapSeq(Stub, kept)),
                               !.songs = nextSongs,
                               !._next = TRUE],
                    "none", nextSongOf(nextSongs), <<"stop">>)
  ELSE IF ~save THEN Throw(q, "DISABLED_OPTION")
  ELSE LET cut == IF position.val # -1
                    THEN SpliceFromEnd(q.previousSongs, position.val + 1)
                    ELSE <<q.previousSongs, <<>>>>
       IN  Result([q EXCEPT !._prev = TRUE,
                             !.songs = cut[2] \o @,
                             !.previousSongs = cut[1]],
                  "none", At(cut[1], Len(cut[1]) - 1), <<"stop">>)

\* setRepeatMode setting the mode it is given even when it is the current one.
setRepeatModeNoToggle(q, mode) ==
  IF mode.given /\ mode.val \notin RepeatModes THEN Throw(q, "INVALID_TYPE")
  ELSE LET m == IF ~mode.given THEN (q.repeatMode + 1) % 3 ELSE mode.val
       IN  Result([q EXCEPT !.repeatMode = m], "none", m, <<>>)

\* setRepeatMode(mode?), lines 340-348.  Object.values(RepeatMode) holds the
\* three modes.
setRepeatMode(q, mode) ==
  IF mode.given /\ mode.val \notin RepeatModes THEN Throw(q, "INVALID_TYPE")
  ELSE LET m == IF ~mode.given THEN (q.repeatMode + 1) % 3
                ELSE IF q.repeatMode = mode.val THEN DISABLED
                ELSE mode.val
       IN  Result([q EXCEPT !.repeatMode = m], "none", m, <<>>)

\* this.queues.playSong(this, emitPlaySong) is the manager's: from the
\* specification, it starts the transport for songs[0].
playSong(q, emitPlaySong) == <<"play">>

\* play() without its test of this.stopped.
playStopped(q, emitPlaySong) ==
  Result([q EXCEPT !.playing = TRUE], "none", "started", playSong(q, emitPlaySong))

\* play(emitPlaySong = true), lines 425-429.
play(q, emitPlaySong) ==
  IF q.stopped THEN Throw(q, "QUEUE_STOPPED")
  ELSE Result([q EXCEPT !.playing = TRUE], "none", "started",
              playSong(q, emitPlaySong))

\* seek(time), lines 354-360.
seek(q, time) ==
  IF time.type # "number" THEN Throw(q, "INVALID_TYPE")
  ELSE IF time.nan \/ time.val < 0 THEN Throw(q, "NUMBER_COMPARE")
  ELSE LET played == play([q EXCEPT !._beginTime = time.val], FALSE)
       IN  IF played.err # "none" THEN played
           ELSE Result(played.q, "none", "this", played.sent)

\* remove(), lines 403-412.
remove(q) ==
  Result([q EXCEPT !.playing = FALSE, !.paused = FALSE, !.stopped = TRUE,
                   !.songs = <<>>, !.previousSongs = <<>>,
                   !.listening = FALSE, !.registered = FALSE,
                   !.deleteEvents = @ + 1],
         "none", Undefined, <<>>)

\* stop(), the body inside try, lines 394-395.
stop(q) ==
  LET removed == remove(q)
  IN  Result(removed.q, "none", Undefined, <<"stop">> \o removed.sent)

\* toggleAutoplay(), lines 417-420.
toggleAutoplay(q) ==
  Result([q EXCEPT !.autoplay = ~@], "none", ~q.autoplay, <<>>)

\* addRelatedSong(), lines 371-373: up to the first lookup.
relatedStart(q) ==
  IF At(q.songs, 0) = Undefined THEN Throw(q, "NO_PLAYING_SONG")
  ELSE Result(q, "none", At(q.songs, 0), <<>>)

\* addRelatedSong() reporting the lack of a candidate as NO_UP_NEXT.
relatedEndNoUpNext(q, relatedSongs, current, me) ==
  LET song == At(relatedSongs, 0)
  IN  IF song = Undefined THEN Throw(q, "NO_UP_NEXT")
      ELSE LET own == [song EXCEPT !.metadata = current.metadata, !.member = me]
               added == addToQueue(q, OneSong(own), Num(0))
           IN  IF added.err # "none" THEN added
               ELSE Result(added.q, "none", own, <<>>)

\* addRelatedSong(), lines 381-386: once the candidates are known.
relatedEnd(q, relatedSongs, current, me) ==
  LET song == At(relatedSongs, 0)
  IN  IF song = Undefined THEN Throw(q, "NO_RELATED")
      ELSE LET own == [song EXCEPT !.metadata = current.metadata, !.member = me]
               added == addToQueue(q, OneSong(own), Num(0))
           IN  IF added.err # "none" THEN added
               ELSE Result(added.q, "none", own, <<>>)

\* The handler of the transport's "song ended" notification is the manager's:
\* from the specification, it consumes the pending intent and advances.  On
\* the previous intent the last entry of the history becomes the current
\* song; on the skip intent the current song moves to the history (as a stub
\* when savePreviousSongs is off) and the next one becomes current; both
\* intents are cleared.
songEnded(q, save) ==
  IF q._prev /\ q.previousSongs # <<>>
    THEN [q EXCEPT !.songs = <<q.previousSongs[Len(q.previousSongs)]>> \o @,
                   !.previousSongs = SubSeq(@, 1, Len(@) - 1),
                   !._next = FALSE, !._prev = FALSE]
  ELSE IF q._next /\ q.songs # <<>>
    THEN [q EXCEPT !.songs = Tail(@),
                   !.previousSongs =
                     @ \o <<IF save THEN Head(q.songs) ELSE Stub(Head(q.songs))>>,
                   !._next = FALSE, !._prev = FALSE]
  ELSE [q EXCEPT !._next = FALSE, !._prev = FALSE]

\* this.clientMember, lines 111-113.
clientMember == "me"

\* -------------------------------------------------------------------- init
\* The queue after construction (lines 83-107) and after any run of commands
\* that has completed: songs added, history collected by earlier jumps or by
\* songs that ended, autoplay toggled.  History holds full songs when
\* savePreviousSongs is set and id-only stubs otherwise.
InitSongs == {[i \in 1..n |-> Song(i)] : n \in 0..MaxLen}
InitPrevious(save) ==
  SeqsUpTo({IF save THEN Song(i) ELSE Stub(Song(i)) : i \in Ids}, MaxPrev)

Init ==
  /\ savePreviousSongs \in BOOLEAN
  /\ songs \in InitSongs
  /\ previousSongs \in InitPrevious(savePreviousSongs)
  /\ (songs = <<>> => previousSongs = <<>>)
  /\ autoplay \in BOOLEAN
  /\ stopped = FALSE
  /\ _next = FALSE
  /\ _prev = FALSE
  /\ playing = FALSE
  /\ paused = FALSE
  /\ repeatMode = DISABLED
  /\ _beginTime = 0
  /\ _taskQueue = <<>>
  /\ registered = TRUE
  /\ listening = TRUE
  /\ deleteEvents = 0
  /\ pc = [p \in Procs |-> "idle"]
  /\ frame = [p \in Procs |-> IdleFrame]
  /\ applied = 0
  /\ last = Outcome("none", NoArgs, 0, FALSE, "none", Undefined, <<>>, FALSE, 0)
  /\ calls = 0

\* A client task may issue a command.
CanCall(p) == pc[p] = "idle" /\ calls < MaxCalls

\* A command without a suspension point completes in the step that calls it.
Completes(p, op, args, err, ret, sent) ==
  /\ last' = Outcome(op, args, calls + 1, stopped, err, ret, sent, qstate' # qstate, 0)
  /\ calls' = calls + 1
  /\ UNCHANGED <<pc, frame, applied, _taskQueue, savePreviousSongs>>

\* The queue a method leaves becomes the state.
Apply(q) ==
  /\ songs' = q.songs
  /\ previousSongs' = q.previousSongs
  /\ stopped' = q.stopped
  /\ playing' = q.playing
  /\ paused' = q.paused
  /\ repeatMode' = q.repeatMode
  /\ autoplay' = q.autoplay
  /\ _beginTime' = q._beginTime
  /\ _next' = q._next
  /\ _prev' = q._prev
  /\ registered' = q.registered
  /\ listening' = q.listening
  /\ deleteEvents' = q.deleteEvents

\* ------------------------------------------------------------------ inputs
SongInputs == {OneSong(Song(NumSongs)), SongArray(<<Song(NumSongs), Song(1)>>)}
PositionInputs == {Num(n) : n \in -1..MaxPos}
\* The calls of addToQueue: valid songs at every position, and one call for
\* each kind of invalid argument.
AddInputs ==
  (SongInputs \X PositionInputs) \cup
  {<<NoSongGiven, Num(0)>>, <<SongArray(<<>>), Num(0)>>,
   <<OneSong(Song(NumSongs)), NaN>>, <<OneSong(Song(NumSongs)), NotNumber>>}
JumpInputs == {Num(n) : n \in -MaxPos..MaxPos} \cup {NaN, NotNumber}
TimeInputs == {Num(t) : t \in -1..MaxTime} \cup {NaN, NotNumber}
ModeInputs == {NoMode} \cup {Mode(m) : m \in 0..3}
\* What a lookup of related songs can answer: a list of candidates (empty
\* when there is no plugin for the song), or a failure.
ProviderAnswers ==
  {[failed |-> TRUE, songs |-> <<>>]} \cup
  {[failed |-> FALSE, songs |-> a] :
     a \in SeqsUpTo({Candidate(i) : i \in Ids}, MaxRelated)}
TicketedCalls ==
  {[op |-> o, args |-> NoArgs] : o \in Ticketed \ {"jump"}} \cup
  {[op |-> "jump", args |-> [position |-> x]] : x \in JumpInputs}

\* ------------------------------------------------- commands without ticket
AddToQueue(p) ==
  /\ CanCall(p)
  /\ \E in \in AddInputs :
       LET song == in[1]
           position == in[2]
           r == addToQueue(Queue, song, position)
       IN  /\ Apply(r.q)
           /\ Completes(p, "addToQueue", [song |-> song, position |-> position],
                        r.err, r.ret, r.sent)

SetRepeatMode(p) ==
  /\ CanCall(p)
  /\ \E mode \in ModeInputs :
       LET r == setRepeatMode(Queue, mode)
       IN  /\ Apply(r.q)
           /\ Completes(p, "setRepeatMode", [mode |-> mode], r.err, r.ret, r.sent)

Seek(p) ==
  /\ CanCall(p)
  /\ \E time \in TimeInputs :
       LET r == seek(Queue, time)
       IN  /\ Apply(r.q)
           /\ Completes(p, "seek", [time |-> time], r.err, r.ret, r.sent)

Play(p) ==
  /\ CanCall(p)
  /\ \E emitPlaySong \in BOOLEAN :
       LET r == play(Queue, emitPlaySong)
       IN  /\ Apply(r.q)
           /\ Completes(p, "play", [emitPlaySong |-> emitPlaySong],
                        r.err, r.ret, r.sent)

Remove(p) ==
  /\ CanCall(p)
  /\ LET r == remove(Queue)
     IN  /\ Apply(r.q)
         /\ Completes(p, "remove", NoArgs, r.err, r.ret, r.sent)

ToggleAutoplay(p) ==
  /\ CanCall(p)
  /\ LET r == toggleAutoplay(Queue)
     IN  /\ Apply(r.q)
         /\ Completes(p, "toggleAutoplay", NoArgs, r.err, r.ret, r.sent)

\* ---------------------------------------------------- commands with ticket
\* await this._taskQueue.queuing(): the call takes a ticket and suspends.
Call(p) ==
  /\ CanCall(p)
  /\ \E c \in TicketedCalls :
       frame' = [frame EXCEPT ![p] =
                   [IdleFrame EXCEPT !.op = c.op, !.args = c.args,
                                     !.seq = calls + 1, !.afterStop = stopped]]
  /\ pc' = [pc EXCEPT ![p] = "waiting"]
  /\ _taskQueue' = queuing(_taskQueue, p)
  /\ calls' = calls + 1
  /\ UNCHANGED <<qstate, manager, savePreviousSongs, applied, last>>

\* A command that does not wait for its ticket.
awaitedAtOnce(p) == TRUE

\* The await on queuing() has returned for p: its ticket is the active one.
awaited(p) == admitted(_taskQueue, p)

Runs(p, op) == pc[p] = "waiting" /\ frame[p].op = op /\ awaited(p)

\* A release at the end of the try block instead of in finally: none when the
\* block throws.
releaseOnReturn(q, err) == IF err = "none" THEN <<resolve(q), 1>> ELSE <<q, 0>>

\* finally { this._taskQueue.resolve() }: the queue afterwards and the number
\* of releases made, whatever the try block threw.
finally(q, err) == <<resolve(q), 1>>

\* The command of p ends with result r: finally runs, the caller gets r.
Finishes(p, r) ==
  /\ Apply(r.q)
  /\ LET f == finally(_taskQueue, r.err)
     IN  /\ _taskQueue' = f[1]
         /\ last' = Outcome(frame[p].op, frame[p].args, frame[p].seq,
                            frame[p].afterStop, r.err, r.ret, frame[p].sent \o r.sent,
                            frame[p].wrote \/ qstate' # qstate,
                            frame[p].released + f[2])
  /\ pc' = [pc EXCEPT ![p] = "idle"]
  /\ frame' = [frame EXCEPT ![p] = IdleFrame]
  /\ applied' = frame[p].seq
  /\ UNCHANGED <<calls, savePreviousSongs>>

Pause(p) == Runs(p, "pause") /\ Finishes(p, pause(Queue))

Resume(p) == Runs(p, "resume") /\ Finishes(p, resume(Queue))

Previous(p) ==
  Runs(p, "previous") /\ Finishes(p, previous(Queue, savePreviousSongs))

Shuffle(p) == Runs(p, "shuffle") /\ \E r \in shuffle(Queue) : Finishes(p, r)

Jump(p) ==
  Runs(p, "jump") /\ Finishes(p, jump(Queue, frame[p].args.position, savePreviousSongs))

Stop(p) == Runs(p, "stop") /\ Finishes(p, stop(Queue))

\* ------------------------------------------------------------ related song
\* addRelatedSong() runs to its first lookup; a throw before it rejects the
\* promise the caller awaits.
Suspends(p, f, r) ==
  /\ frame' = [frame EXCEPT ![p] =
       IF r.err # "none" THEN [f EXCEPT !.err = r.err]
       ELSE [f EXCEPT !.current = r.ret, !.prevIds = IdsOf(previousSongs)]]
  /\ pc' = [pc EXCEPT ![p] = IF r.err # "none" THEN "settled" ELSE "lookup1"]

\* skip(), lines 244-247.
Skip(p) ==
  /\ Runs(p, "skip")
  /\ IF noUpNext(Queue)
       THEN IF autoplay
              THEN /\ Suspends(p, frame[p], relatedStart(Queue))
                   /\ applied' = frame[p].seq
                   /\ UNCHANGED <<qstate, manager, _taskQueue, savePreviousSongs,
                                  last, calls>>
              ELSE Finishes(p, Throw(Queue, "NO_UP_NEXT"))
       ELSE Finishes(p, skipTo(Queue))

\* addRelatedSong() called by a client.
AddRelatedSong(p) ==
  /\ CanCall(p)
  /\ Suspends(p, [IdleFrame EXCEPT !.op = "addRelatedSong", !.seq = calls + 1,
                                  !.afterStop = stopped],
              relatedStart(Queue))
  /\ calls' = calls + 1
  /\ UNCHANGED <<qstate, manager, _taskQueue, savePreviousSongs, applied, last>>

\* The promise of addRelatedSong() settles with r: the awaiting code of p
\* (skip, or the client) continues in a later step.
Settles(p, found, r, relatedSongs) ==
  /\ Apply(r.q)
  /\ frame' = [frame EXCEPT ![p].err = r.err, ![p].song = r.ret,
                            ![p].found = Append(@, found),
                            ![p].relatedSongs = relatedSongs,
                            ![p].wrote = @ \/ qstate' # qstate]
  /\ pc' = [pc EXCEPT ![p] = "settled"]
  /\ UNCHANGED <<_taskQueue, savePreviousSongs, applied, last, calls>>

\* Lines 374-380: the first lookup answers.
Lookup(p) ==
  /\ pc[p] = "lookup1"
  /\ \E found \in ProviderAnswers :
       LET current == frame[p].current
           relatedSongs == FilterNotIn(found.songs, frame[p].prevIds)
       IN  IF found.failed
             THEN Settles(p, found, Throw(Queue, "PROVIDER_ERROR"), <<>>)
           ELSE IF /\ relatedSongs = <<>>
                   /\ ~PlayFromSource(current)
                   /\ AltSong(current) # Undefined
             THEN /\ pc' = [pc EXCEPT ![p] = "lookup2"]
                  /\ frame' = [frame EXCEPT ![p].relatedSongs = relatedSongs,
                                            ![p].found = Append(@, found)]
                  /\ UNCHANGED <<qstate, manager, _taskQueue, savePreviousSongs,
                                 applied, last, calls>>
           ELSE Settles(p, found,
                        relatedEnd(Queue, relatedSongs, current, clientMember),
                        relatedSongs)

\* Line 378: the lookup on the streamed song answers.
LookupAlt(p) ==
  /\ pc[p] = "lookup2"
  /\ \E found \in ProviderAnswers :
       LET relatedSongs ==
             frame[p].relatedSongs \o FilterNotIn(found.songs, frame[p].prevIds)
       IN  IF found.failed
             THEN Settles(p, found, Throw(Queue, "PROVIDER_ERROR"), <<>>)
             ELSE Settles(p, found,
                          relatedEnd(Queue, relatedSongs, frame[p].current,
                                     clientMember),
                          relatedSongs)

\* skip() continues after await this.addRelatedSong(): lines 245-254.
SkipResumes(p) ==
  /\ pc[p] = "settled"
  /\ frame[p].op = "skip"
  /\ IF frame[p].err # "none"
       THEN Finishes(p, Throw(Queue, frame[p].err))
       ELSE Finishes(p, skipTo(Queue))

\* The client that called addRelatedSong() gets its result.
RelatedReturns(p) ==
  /\ pc[p] = "settled"
  /\ frame[p].op = "addRelatedSong"
  /\ last' = Outcome("addRelatedSong", NoArgs, frame[p].seq,
                     frame[p].afterStop, frame[p].err,
                     frame[p].song, frame[p].sent, frame[p].wrote, 0)
  /\ pc' = [pc EXCEPT ![p] = "idle"]
  /\ frame' = [frame EXCEPT ![p] = IdleFrame]
  /\ UNCHANGED <<qstate, manager, _taskQueue, savePreviousSongs, applied, calls>>

\* -------------------------------------------------------------------- next
Next ==
  \E p \in Procs :
    \/ AddToQueue(p)
    \/ SetRepeatMode(p)
    \/ Seek(p)
    \/ Play(p)
    \/ Remove(p)
    \/ ToggleAutoplay(p)
    \/ AddRelatedSong(p)
    \/ Call(p)
    \/ Pause(p)
    \/ Resume(p)
    \/ Skip(p)
    \/ Previous(p)
    \/ Shuffle(p)
    \/ Jump(p)
    \/ Stop(p)
    \/ Lookup(p)
    \/ LookupAlt(p)
    \/ SkipResumes(p)
    \/ RelatedReturns(p)

Spec == Init /\ [][Next]_vars

\* The event loop runs every continuation whose promise has settled, and
\* every lookup of related songs answers or fails.
Continues(p) ==
  \/ Pause(p) \/ Resume(p) \/ Skip(p) \/ Previous(p) \/ Shuffle(p) \/ Jump(p)
  \/ Stop(p) \/ SkipResumes(p) \/ RelatedReturns(p)
Answers(p) == Lookup(p) \/ LookupAlt(p)
\* The liveness claims are about the tickets, not about the songs: they are
\* checked from the initial states with at most one song and no history.
LiveInit == Init /\ Len(songs) <= 1 /\ previousSongs = <<>>
LiveSpec ==
  /\ LiveInit
  /\ [][Next]_vars
  /\ WF_vars(\E p \in Procs : Continues(p) \/ Answers(p))

\* ------------------------------------------------------------------ claims
Range(f) == {f[i] : i \in DOMAIN f}

\* p runs a command that went through the task queue.
InFlight(p) == pc[p] # "idle" /\ frame[p].op \in Ticketed
\* p is between its acquire and its release: its body has started and its
\* finally block has not run yet (a skip suspended in addRelatedSong).
InWindow(p) == InFlight(p) /\ pc[p] \in {"lookup1", "lookup2", "settled"}
\* This step runs code of p's ticketed command behind its acquire.
BodyStep(p) == InFlight(p) /\ pc[p] # "idle" /\ pc'[p] # pc[p]

\* C1: of the commands pause, resume, skip, previous, shuffle, jump and stop
\* issued concurrently, at most one is between acquire and release at any
\* time, and their bodies run in the order the calls were issued: a step of
\* one command's body is never taken while a command issued earlier is still
\* in flight, nor after a command issued later has run.
C1_FifoExclusive ==
  [][/\ \A p, q \in Procs : (InWindow(p) /\ InWindow(q))' => p = q
     /\ \A p \in Procs :
          BodyStep(p) =>
            /\ frame[p].seq >= applied
            /\ \A q \in Procs \ {p} : InFlight(q) => frame[q].seq > frame[p].seq
    ]_vars

\* C1 witness: a skip is suspended in its related-song lookup while another
\* ticketed command, issued later, waits for the ticket.
C1_Witness ==
  \E p, q \in Procs :
    /\ pc[p] = "lookup1" /\ frame[p].op = "skip"
    /\ pc[q] = "waiting" /\ frame[q].seq > frame[p].seq

\* A skip of q is suspended in its lookup of related songs.
InLookup(q) == InFlight(q) /\ pc[q] \in {"lookup1", "lookup2"}

\* C2: no command changes songs, previousSongs, playing, paused, stopped,
\* repeatMode, autoplay or _beginTime (nor an intent flag) while another
\* command holds the ticket: a step that changes the queue while a skip is
\* suspended in its related-song lookup, ticket in hand, is a step of that skip.
C2_NoWriteWhileTicketHeld ==
  [][qstate' # qstate => \A q \in Procs : InLookup(q) => pc'[q] # pc[q]]_vars

\* C3: a ticketed command releases its ticket exactly once on every exit
\* path (return, validation error, error raised by the lookup), so that no
\* ticket of a completed command stays in the task queue; and, every lookup
\* answering or failing, every command waiting for the ticket gets to run.
C3_ReleasedOnceThenAdmitted ==
  /\ [](last.op \in Ticketed => last.released = 1)
  /\ [](\A p \in Procs : pc[p] = "idle" => p \notin Range(_taskQueue))
  /\ \A p \in Procs : (pc[p] = "waiting") ~> (pc[p] # "waiting")

\* C3 witness: a skip has ended with the error its lookup raised, and the
\* command that waited behind it now holds the active ticket.
C3_Witness ==
  /\ last.op = "skip" /\ last.err = "PROVIDER_ERROR" /\ last.released = 1
  /\ \E q \in Procs : pc[q] = "waiting" /\ admitted(_taskQueue, q)

\* C4: a command that ends with an error has changed nothing of the queue's
\* state and has sent no transport command.
C4_FailedCommandChangesNothing ==
  last.err # "none" => ~last.wrote /\ last.sent = <<>>

\* The commands the specification has fail on a stopped queue.
DeadOnStopped ==
  {"addToQueue", "pause", "resume", "skip", "previous", "shuffle", "jump",
   "setRepeatMode", "seek", "addRelatedSong", "play"}

\* C5: once the queue is stopped both song lists are empty, and a command
\* other than remove and stop that is called on the stopped queue fails with
\* QUEUE_STOPPED.
C5_StoppedRejectsCommands ==
  /\ stopped => songs = <<>> /\ previousSongs = <<>>
  /\ (last.afterStop /\ last.op \in DeadOnStopped) => last.err = "QUEUE_STOPPED"

\* This step runs the body of p's skip() up to its end or its first await.
SkipStep(p) == Runs(p, "skip") /\ pc'[p] # pc[p]

\* C6: skip() on a queue of fewer than 2 songs with autoplay off fails with
\* NO_UP_NEXT, leaves songs, previousSongs and the intents as they are, sends
\* nothing to the transport and releases its ticket.
C6_SkipNoUpNext ==
  [][\A p \in Procs :
       (SkipStep(p) /\ Len(songs) < 2 /\ ~autoplay) =>
         /\ last'.op = "skip" /\ last'.seq = frame[p].seq
         /\ last'.err = "NO_UP_NEXT"
         /\ last'.sent = <<>>
         /\ UNCHANGED qstate
         /\ last'.released = 1
         /\ p \notin Range(_taskQueue')
    ]_vars

\* C6 witness: a skip() has failed with NO_UP_NEXT on a queue of one song
\* with autoplay off.
C6_Witness ==
  /\ last.op = "skip" /\ last.err = "NO_UP_NEXT"
  /\ Len(songs) = 1 /\ ~autoplay

\* This step continues p's skip() behind await this.addRelatedSong().
ResumeStep(p) == pc[p] = "settled" /\ frame[p].op = "skip" /\ pc'[p] = "idle"

\* The lookup of the skip() with frame f answered once, with one song that
\* is not in the history.
OneRelated(f) ==
  /\ Len(f.found) = 1
  /\ ~f.found[1].failed
  /\ Len(f.found[1].songs) = 1
  /\ f.found[1].songs[1].id \notin f.prevIds

\* This step is the lookup of p's skip() answering, addRelatedSong() running
\* to its end.
AnswerStep(p) == pc[p] = "lookup1" /\ frame[p].op = "skip" /\ pc'[p] = "settled"

\* C7: a skip() on a queue of one song with autoplay on, whose provider
\* answers one related song, succeeds with a queue of length 2, returns the
\* song it appended, which sits at index 1, sets the skip intent and stops
\* the transport once, whatever other commands were issued meanwhile: the
\* answer of the lookup is appended at index 1 of a queue that then holds 2
\* songs, and the skip() that continues returns that song.
C7_AutoplaySkipSameResult ==
  [][\A p \in Procs :
       /\ (AnswerStep(p) /\ OneRelated(frame'[p])) =>
            /\ frame'[p].err = "none"
            /\ Len(songs') = 2
            /\ At(songs', 1) = frame'[p].song
       /\ (ResumeStep(p) /\ OneRelated(frame[p])) =>
            /\ last'.err = "none"
            /\ Len(songs') = 2
            /\ last'.ret = frame[p].song
            /\ At(songs', 1) = frame[p].song
            /\ _next'
            /\ last'.sent = <<"stop">>
    ]_vars

\* The skip() of p got no candidate: there was no current song, the provider
\* failed, or it answered no song that is not in the history.
NoCandidate(p) == frame[p].relatedSongs = <<>>
\* The lookup of p's skip() was made and gave no candidate.
LookupGaveNothing(p) == NoCandidate(p) /\ frame[p].found # <<>>

JumpStep(p, n) ==
  /\ Runs(p, "jump") /\ pc'[p] = "idle"
  /\ frame[p].args.position = Num(n)
  /\ Len(songs) >= 1

\* jump(L + 1) and jump(0) fail with NO_SONG_POSITION and change nothing.
JumpOutOfRange(p) ==
  \A n \in {0, Len(songs) + 1} :
    JumpStep(p, n) =>
      /\ last'.err = "NO_SONG_POSITION"
      /\ last'.sent = <<>>
      /\ UNCHANGED qstate

\* C9 as stated: jump(L + 1) and jump(0) fail with NO_SONG_POSITION and
\* change nothing; jump(1) keeps songs[0] and returns it.
C9_JumpOneReturnsCurrent ==
  [][\A p \in Procs :
       /\ JumpOutOfRange(p)
       /\ JumpStep(p, 1) =>
            /\ last'.err = "none"
            /\ At(songs', 0) = At(songs, 0)
            /\ last'.ret = At(songs, 0)
    ]_vars

\* C9 amended: jump(L + 1) and jump(0) fail with NO_SONG_POSITION and change
\* nothing; jump(1) leaves songs and previousSongs as they are, sets the skip
\* intent, stops the transport and returns songs[1], the song after the
\* current one, which is undefined when L = 1.
C9_JumpOneReturnsNext ==
  [][\A p \in Procs :
       /\ JumpOutOfRange(p)
       /\ JumpStep(p, 1) =>
            /\ last'.err = "none"
            /\ songs' = songs /\ previousSongs' = previousSongs
            /\ _next'
            /\ last'.sent = <<"stop">>
            /\ last'.ret = At(songs, 1)
            /\ (Len(songs) = 1 => last'.ret = Undefined)
    ]_vars

\* C9 witness: jump(1) has returned the second song of a queue it left as
\* it was.
C9_Witness ==
  /\ last.op = "jump" /\ last.args.position = Num(1) /\ last.err = "none"
  /\ Len(songs) >= 2 /\ last.ret = songs[2]

\* This step is a call addToQueue(items, k) with valid arguments on a queue
\* that is not stopped.
AddStep(items, k) ==
  /\ last' # last /\ last'.op = "addToQueue"
  /\ last'.args.song.items = items /\ items # <<>>
  /\ last'.args.position = Num(k)
  /\ ~stopped

\* C10 as stated: position <= 0 appends; position k in 1..n puts the new
\* songs right before the former element at index k - 1; position >= n
\* appends.
C10_InsertBeforeKMinusOne ==
  [][\A in \in AddInputs : \A k \in -1..MaxPos :
       AddStep(in[1].items, k) =>
         LET n == Len(songs)
             items == in[1].items
         IN  /\ last'.err = "none"
             /\ k <= 0 => songs' = songs \o items
             /\ (1 <= k /\ k <= n) =>
                  songs' = SubSeq(songs, 1, k - 1) \o items \o SubSeq(songs, k, n)
             /\ k >= n => songs' = songs \o items
    ]_vars

\* C10 amended: position <= 0 appends; position k in 1..n puts the new songs
\* right after the former element at index k - 1 (at index k, before the
\* former element at index k when there is one), the k elements before them
\* and the order of all former elements untouched; position >= n appends.
C10_InsertAtK ==
  [][\A in \in AddInputs : \A k \in -1..MaxPos :
       AddStep(in[1].items, k) =>
         LET n == Len(songs)
             items == in[1].items
         IN  /\ last'.err = "none"
             /\ k <= 0 => songs' = songs \o items
             /\ (1 <= k /\ k <= n) =>
                  songs' = SubSeq(songs, 1, k) \o items \o SubSeq(songs, k + 1, n)
             /\ k >= n => songs' = songs \o items
    ]_vars

\* C10 witness: two songs were inserted at position 1 of a queue of two
\* songs, between its elements.
C10_Witness ==
  /\ last.op = "addToQueue" /\ last.err = "none"
  /\ last.args.position = Num(1) /\ Len(last.args.song.items) = 2
  /\ Len(songs) = 4
  /\ SubSeq(songs, 2, 3) = last.args.song.items

\* This step is a call of setRepeatMode with the optional argument mode.
RepeatStep(mode) ==
  last' # last /\ last'.op = "setRepeatMode" /\ last'.args.mode = mode

\* The modes that two further calls of setRepeatMode() without argument set,
\* one after the other, on the queue q.
TwoMoreToggles(q) ==
  LET q1 == setRepeatMode(q, NoMode).q
      q2 == setRepeatMode(q1, NoMode).q
  IN  <<q1.repeatMode, q2.repeatMode>>

\* C11: repeatMode is always DISABLED, SONG or QUEUE; setRepeatMode() without
\* argument steps DISABLED -> SONG -> QUEUE -> DISABLED, three calls from
\* DISABLED visiting SONG, QUEUE and DISABLED; setRepeatMode(m) with m the
\* current mode resets to DISABLED, with another mode it sets m; a value that
\* is no mode fails with INVALID_TYPE and leaves the mode as it is; the value
\* returned is the new repeatMode.
C11_RepeatModeCycle ==
  /\ [](repeatMode \in RepeatModes)
  /\ [][\A mode \in ModeInputs :
          RepeatStep(mode) =>
            /\ (~mode.given) =>
                  /\ last'.err = "none"
                  /\ repeatMode = DISABLED => repeatMode' = SONG
                  /\ repeatMode = SONG => repeatMode' = QUEUE
                  /\ repeatMode = QUEUE => repeatMode' = DISABLED
                  /\ repeatMode = DISABLED =>
                       <<repeatMode'>> \o TwoMoreToggles(Queue')
                         = <<SONG, QUEUE, DISABLED>>
            /\ (mode.given /\ mode.val \in RepeatModes) =>
                  /\ last'.err = "none"
                  /\ repeatMode' = IF mode.val = repeatMode THEN DISABLED ELSE mode.val
            /\ (mode.given /\ mode.val \notin RepeatModes) =>
                  /\ last'.err = "INVALID_TYPE"
                  /\ repeatMode' = repeatMode
            /\ last'.err = "none" => last'.ret = repeatMode'
            /\ \A i \in 1..10 : i # 6 => qstate'[i] = qstate[i]
     ]_vars

\* C11 witness: setRepeatMode(QUEUE) was called on a queue in mode QUEUE
\* and has reset it to DISABLED.
C11_Witness ==
  /\ last.op = "setRepeatMode" /\ last.args.mode = Mode(QUEUE) /\ last.seq = 2
  /\ last.err = "none" /\ last.ret = DISABLED /\ repeatMode = DISABLED

Count(a, x) == Cardinality({i \in DOMAIN a : a[i] = x})
SameMultiset(a, b) ==
  /\ Len(a) = Len(b)
  /\ \A x \in Range(a) \cup Range(b) : Count(a, x) = Count(b, x)

\* This step runs the body of p's shuffle().
ShuffleStep(p) == Runs(p, "shuffle") /\ pc'[p] # pc[p]

\* C12: shuffle() on a non-empty queue leaves the song at index 0 where it is
\* and songs[1..] a permutation of the former songs[1..], nothing lost or
\* duplicated; the body of shuffle() has no suspension point, so it runs in
\* one step from its ticket to its end and no other task sees the list
\* without the playing song; shuffle() on an empty queue succeeds and
\* changes nothing.
C12_ShufflePermutesRest ==
  /\ [](\A p \in Procs : frame[p].op = "shuffle" => pc[p] = "waiting")
  /\ [][\A p \in Procs :
          ShuffleStep(p) =>
            /\ pc'[p] = "idle"
            /\ last'.op = "shuffle" /\ last'.err = "none" /\ last'.ret = "this"
            /\ last'.sent = <<>>
            /\ songs = <<>> => UNCHANGED qstate
            /\ songs # <<>> =>
                  /\ songs' # <<>>
                  /\ Head(songs') = Head(songs)
                  /\ SameMultiset(Tail(songs'), Tail(songs))
            /\ \A i \in 2..10 : qstate'[i] = qstate[i]
     ]_vars

\* C12 witness: a shuffle() has reordered the three songs behind the
\* playing one (no addToQueue leaves the songs 1, 3, 2, 1 in this order).
C12_Witness ==
  /\ last.op = "shuffle" /\ last.err = "none"
  /\ songs = <<Song(1), Song(NumSongs), Song(2), Song(1)>>

\* C13: over any sequence of operations on one queue, repeated or concurrent
\* stop() calls and direct remove() calls included, DELETE_QUEUE is emitted
\* at most once, and only once stopped is set and both lists are cleared.
C13_DeleteQueueOnce ==
  /\ deleteEvents <= 1
  /\ deleteEvents > 0 => stopped /\ songs = <<>> /\ previousSongs = <<>>

\* C14: in every reachable state playing = true implies that songs is not
\* empty, songs[0] being the current song; songs is empty only when playing
\* is false.
C14_PlayingHasCurrentSong ==
  playing => songs # <<>> /\ At(songs, 0) # Undefined

\* C15: the skip intent (_next) and the previous intent (_prev) are never
\* both set, whatever skip, previous and jump commands complete before the
\* pending intent is consumed.
C15_IntentsExclusive == ~(_next /\ _prev)

\* This step runs the body of p's jump(k) for a forward position the queue
\* accepts.
ForwardStep(p, k) ==
  /\ Runs(p, "jump") /\ pc'[p] # pc[p]
  /\ frame[p].args.position = Num(k)
  /\ 1 <= k /\ k <= Len(songs)

IdSeq(a) == [i \in DOMAIN a |-> a[i].id]

\* C16: a forward jump(k), 1 <= k <= songs.length, succeeds, leaves songs
\* equal to the former songs from index k - 1 on, appends the former
\* songs[0..k-2] in order to previousSongs (the songs themselves when
\* savePreviousSongs is set, stubs holding the id alone otherwise), sets the
\* skip intent and stops the transport once; the ids of previousSongs
\* followed by songs are the same sequence before and after.
C16_ForwardJumpSplits ==
  [][\A p \in Procs : \A k \in 1..(MaxLen + 2) :
       ForwardStep(p, k) =>
         LET L == Len(songs)
             moved == [i \in 1..(k - 1) |->
                         IF savePreviousSongs THEN songs[i] ELSE [id |-> songs[i].id]]
         IN  /\ last'.op = "jump" /\ last'.err = "none"
             /\ songs' = SubSeq(songs, k, L)
             /\ previousSongs' = previousSongs \o moved
             /\ _next'
             /\ last'.sent = <<"stop">>
             /\ IdSeq(previousSongs' \o songs') = IdSeq(previousSongs \o songs)
             /\ \A i \in 3..10 : i # 9 => qstate'[i] = qstate[i]
    ]_vars

\* C16 witness: with savePreviousSongs off, jump(3) has moved the first two
\* songs of the queue to the history as stubs.
C16_Witness ==
  /\ last.op = "jump" /\ last.args.position = Num(3) /\ last.err = "none"
  /\ ~savePreviousSongs
  /\ Len(previousSongs) >= 2 /\ songs # <<>>
  /\ previousSongs[Len(previousSongs)] = [id |-> 2]

\* This step runs the body of p's jump with a position the queue accepts.
AcceptedJumpStep(p) ==
  /\ Runs(p, "jump") /\ pc'[p] # pc[p]
  /\ LET position == frame[p].args.position
     IN  /\ position.type = "number" /\ ~position.nan /\ position.val # 0
         /\ position.val <= Len(songs)
         /\ -position.val <= Len(previousSongs)
         /\ position.val < 0 => savePreviousSongs

\* C17: for every position that jump accepts, jump returns an existing song,
\* never an absent value, and that song is the one at songs[0] once the
\* song-ended handler has consumed the intent the jump has set (no other
\* intent pending).
C17_JumpReturnsNewCurrent ==
  [][\A p \in Procs :
       AcceptedJumpStep(p) =>
         /\ last'.op = "jump" /\ last'.err = "none"
         /\ last'.ret # Undefined
         /\ ~(_next' /\ _prev') =>
               last'.ret = At(songEnded(Queue', savePreviousSongs).songs, 0)
    ]_vars

\* This step runs the body of p's jump(-k) for a backward position the queue
\* accepts, savePreviousSongs being set.
BackwardStep(p, k) ==
  /\ Runs(p, "jump") /\ pc'[p] # pc[p]
  /\ frame[p].args.position = Num(-k)
  /\ 1 <= k /\ k <= Len(previousSongs)
  /\ savePreviousSongs

\* C18 as stated: a backward jump(-k) moves the last k entries of the
\* history, in their order, to the front of songs and sets the previous
\* intent, for every k alike.
C18_BackwardJumpMovesK ==
  [][\A p \in Procs : \A k \in 1..(MaxLen + 1) :
       BackwardStep(p, k) =>
         LET n == Len(previousSongs)
         IN  /\ last'.err = "none"
             /\ songs' = SubSeq(previousSongs, n - k + 1, n) \o songs
             /\ previousSongs' = SubSeq(previousSongs, 1, n - k)
             /\ _prev'
    ]_vars

\* C18 amended: a backward jump(-k) moves the last k - 1 entries of the
\* history, in their order, to the front of songs (none for k = 1), leaves
\* the k-th entry from the end as the last one of the history and returns
\* it, sets the previous intent and stops the transport once; this holds for
\* every k alike, k = 1 and k = previousSongs.length included.
C18_BackwardJumpMovesKMinusOne ==
  [][\A p \in Procs : \A k \in 1..(MaxLen + 1) :
       BackwardStep(p, k) =>
         LET n == Len(previousSongs)
         IN  /\ last'.op = "jump" /\ last'.err = "none"
             /\ songs' = SubSeq(previousSongs, n - k + 2, n) \o songs
             /\ previousSongs' = SubSeq(previousSongs, 1, n - k + 1)
             /\ k = 1 => songs' = songs /\ previousSongs' = previousSongs
             /\ last'.ret = previousSongs[n - k + 1]
             /\ last'.ret = previousSongs'[Len(previousSongs')]
             /\ _prev'
             /\ last'.sent = <<"stop">>
             /\ \A i \in 3..9 : qstate'[i] = qstate[i]
    ]_vars

\* C18 witness: jump(-2) on a history of two entries has moved the last one
\* to the front of songs and returned the other, which stays in the history.
C18_Witness ==
  /\ last.op = "jump" /\ last.args.position = Num(-2) /\ last.err = "none"
  /\ _prev
  /\ Len(previousSongs) = 1 /\ last.ret = previousSongs[1]
  /\ Len(songs) = 2

\* This step is a lookup of p's addRelatedSong() answering and the method
\* appending the song it chose.
AppendStep(p) ==
  /\ pc[p] \in {"lookup1", "lookup2"} /\ pc'[p] = "settled"
  /\ frame'[p].err = "none"

\* C19: the song that addRelatedSong appends, called by a client or by
\* skip() under autoplay, has an identifier that is not in previousSongs at
\* the moment it is appended, whatever command ran while the lookup of
\* related songs was pending.
C19_RelatedNotInHistory ==
  [][\A p \in Procs :
       AppendStep(p) =>
         /\ songs' = songs \o <<frame'[p].song>>
         /\ frame'[p].song.id \notin IdsOf(previousSongs)
         /\ frame'[p].song.id \notin IdsOf(previousSongs')
    ]_vars

\* C20: stopped is terminal: once remove() has set stopped, no later step of
\* any command, in any interleaving, sets stopped back to false, sets playing
\* to true or puts a song into songs or previousSongs.
C20_StoppedIsTerminal ==
  /\ [](stopped => ~playing /\ songs = <<>> /\ previousSongs = <<>>)
  /\ [][stopped =>
          /\ stopped'
          /\ ~playing'
          /\ songs' = <<>> /\ previousSongs' = <<>>
     ]_vars

\* C20 witness: an addRelatedSong() whose lookup answered a song after the
\* queue was removed has failed with QUEUE_STOPPED, the queue staying empty.
C20_Witness ==
  /\ stopped /\ songs = <<>>
  /\ last.op = "addRelatedSong" /\ last.err = "QUEUE_STOPPED" /\ ~last.afterStop

====
